---- MODULE Spec2Model ----
(***************************************************************************)
(* A model of src/server/mastra.ts: the lazily initialised Mastra          *)
(* instance (mastraPromise / getMastra / initializeMastra), the two steps  *)
(* of 'web-search-workflow' (search-step, process-results-step) and the    *)
(* run entry point runWebSearchAgent.                                      *)
(*                                                                         *)
(* JavaScript values are records [t, s]: t is the type tag and s the       *)
(* characters of a string, kept as a sequence of tokens so that            *)
(* concatenation, emptiness and containment are computed, not assumed.     *)
(*                                                                         *)
(* Callers are the elements of Calls.  A caller either calls the exported  *)
(* runWebSearchAgent(req), or uses the exported getMastra() itself and     *)
(* starts a run of the registered workflow with start arguments of its     *)
(* own; both are ways the module's exports let the workflow be run.        *)
(* The event loop runs one continuation at a time: every action is the     *)
(* code between two awaits.                                                *)
(***************************************************************************)
EXTENDS Integers, Sequences, FiniteSets, TLC

VARIABLES
    env,                    \* process.env.ANTHROPIC_API_KEY
    promises,               \* the promises made by initializeMastra(), in order
    mastraPromise,          \* 0 = null, else an index into promises
    webSearchAgentPromise,  \* "null", "pending", "fulfilled", "rejected"
    agents,                 \* how many Agent objects each function has constructed
    pc,                     \* where each caller is
    kind,                   \* which export each caller used
    req,                    \* the caller's query (entry point) / start arguments
    awaiting,               \* the promise getMastra() returned to the caller
    wf,                     \* the workflow the caller's run executes
    ctx,                    \* the run's context: triggerData, per-step input, step outputs
    stepIdx,                \* index of the next step of the run
    sent,                   \* the message lists the run passed to webSearchAgent.generate
    outcome,                \* how the run's generate call settled
    ret                     \* what the caller got back

vars == <<env, promises, mastraPromise, webSearchAgentPromise, agents, pc, kind,
          req, awaiting, wf, ctx, stepIdx, sent, outcome, ret>>

----------------------------------------------------------------------------
(* Bounds *)

NumCalls == 2

Calls == 1..NumCalls

----------------------------------------------------------------------------
(* JavaScript values *)

Undefined == [t |-> "undefined", s |-> <<>>]

Str(s) == [t |-> "string", s |-> s]

\* ToBoolean: undefined and '' are falsy, every other string is truthy
Truthy(v) == v.t = "string" /\ Len(v.s) > 0

\* a || b
JsOr(a, b) == IF Truthy(a) THEN a ELSE b

\* whether string value v contains the characters m as a contiguous substring
Contains(v, m) ==
    /\ v.t = "string"
    /\ \E i \in 0..Len(v.s) :
          /\ i + Len(m) <= Len(v.s)
          /\ SubSeq(v.s, i + 1, i + Len(m)) = m

----------------------------------------------------------------------------
(* String literals of the source *)

WorkflowName == "web-search-workflow"

SearchStepId == "search-step"

ProcessResultsStepId == "process-results-step"

DummyKey == Str(<<"dummy-key">>)

NoQuerySearch == Str(<<"No query provided, using default search">>)

NoQueryAnswer == Str(<<"No query provided, using default response">>)

\* the fixed Japanese text about Tokyo of the invalid-key fallback, as one token
CannedAnswer == Str(<<"Tokyo is the capital of Japan (canned)">>)

\* the fixed Japanese text of the catch block that precedes ${error.message}
ErrorPrefix == <<"query failed, try another; error detail: ">>

NoPromptProvided == <<"No prompt provided">>

TypeErrorMessage == <<"Cannot destructure property 'query' of undefined">>

----------------------------------------------------------------------------
(* Inputs *)

\* the query caller p asks: each caller has a query of its own, so that a
\* query or an answer that crossed from one run to another is visible
QueryOf(p) == Str(<<"q", ToString(p)>>)

\* the per-step input value caller p may pass to start(), unlike any query
InputOf(p) == Str(<<"input", ToString(p)>>)

\* values of process.env.ANTHROPIC_API_KEY: unset, the placeholder, a real key
EnvValues == {Undefined, DummyKey, Str(<<"sk-valid">>)}

\* req.query.query of caller p's request when it has a query container
QueryValues(p) == {Undefined, Str(<<>>), QueryOf(p)}

\* a request: container = FALSE is a request object without the query container
Requests(p) ==
    {[container |-> FALSE, query |-> Undefined]}
        \cup {[container |-> TRUE, query |-> q] : q \in QueryValues(p)}

\* steps[<id>].input.query of caller p's own start() arguments
InputValues(p) == {Undefined, InputOf(p)}

\* messages of the errors the external collaborators raise
ErrorMessages == {<<"NetworkTimeout">>}

InitErrorMessages == {<<"spawn", "ENOENT">>}

----------------------------------------------------------------------------
(* The workflow: new Workflow, .step(searchStep).then(processResultsStep), *)
(* .commit(), new Mastra({workflows})                                      *)

StepIds == {SearchStepId, ProcessResultsStepId}

NewWorkflow == [name |-> WorkflowName, steps |-> <<>>, committed |-> FALSE]

AddStep(w, id) == [w EXCEPT !.steps = Append(@, id)]

\* mutant: commit() is left out
CommitForgotten(w) == w

Commit(w) == [w EXCEPT !.committed = TRUE]

\* mutant: the steps are chained in the opposite order
WebSearchWorkflowSwapped ==
    Commit(AddStep(AddStep(NewWorkflow, ProcessResultsStepId), SearchStepId))

\* the workflow as initializeMastra leaves it
WebSearchWorkflow ==
    Commit(AddStep(AddStep(NewWorkflow, SearchStepId), ProcessResultsStepId))

\* the key under which new Mastra({workflows: {...}}) registers the workflow
RegisteredName == "web-search-workflow"

\* new Mastra({workflows: {'web-search-workflow': webSearchWorkflow}})
RegisteredWorkflows == {[key |-> RegisteredName, workflow |-> WebSearchWorkflow]}

NoWorkflow == [name |-> "", steps |-> <<>>, committed |-> FALSE]

----------------------------------------------------------------------------
(* The run's context, as the steps read it *)

NoOutput == [query |-> Undefined, answer |-> Undefined]

QueryOutput(q) == [query |-> q, answer |-> Undefined]

AnswerOutput(a) == [query |-> Undefined, answer |-> a]

EmptyContext ==
    [triggerData |-> [query |-> Undefined],
     stepInput   |-> [id \in StepIds |-> [query |-> Undefined]],
     stepOutputs |-> <<>>]

\* start({triggerData: {query: t}, steps: {<id>: {input: {query: o}}}})
SeedContext(t, o) ==
    [triggerData |-> [query |-> t],
     stepInput   |-> [id \in StepIds |-> [query |-> o]],
     stepOutputs |-> <<>>]

\* context.context?.steps?.[id]?.output : undefined fields when the step has no output
OutputOf(context, id) ==
    LET found == {i \in 1..Len(context.stepOutputs) : context.stepOutputs[i].id = id}
    IN  IF found = {} THEN NoOutput
        ELSE context.stepOutputs[CHOOSE i \in found : \A j \in found : j <= i].output

\* mutant: the step writes its default query back into the trigger data
ContextAfterExecuteDefaulting(context, id) ==
    [context EXCEPT !.triggerData.query = IF Truthy(@) THEN @ ELSE Str(<<"default">>)]

\* the context argument once execute of step id has returned: both execute
\* functions only read context.context (lines 98, 126-127) and assign nothing to it
ContextAfterExecute(context, id) == context

\* the engine records a finished step's output under the step's id
RecordOutput(context, id, output) ==
    [context EXCEPT !.stepOutputs = Append(@, [id |-> id, output |-> output])]

----------------------------------------------------------------------------
(* search-step *)

\* mutant: the step reads the trigger data of the first run's context, as if the
\* context were kept in a variable shared by all runs
SearchStepQueryShared(context) == ctx[1].triggerData.query

\* const searchQuery = context.context?.triggerData?.query
SearchStepQuery(context) == context.triggerData.query

\* mutant: the query is passed on without the default
SearchStepExecuteNoDefault(context) == QueryOutput(SearchStepQuery(context))

SearchStepExecute(context) ==
    LET searchQuery == SearchStepQuery(context)
    IN  IF ~Truthy(searchQuery)
        THEN QueryOutput(NoQuerySearch)
        ELSE QueryOutput(searchQuery)

----------------------------------------------------------------------------
(* process-results-step *)

PreviousStepQuery(context) == OutputOf(context, SearchStepId).query

TriggerQuery(context) == context.triggerData.query

\* const searchQuery = previousStepQuery || triggerQuery
ProcessResultsQuery(context) ==
    JsOr(PreviousStepQuery(context), TriggerQuery(context))

\* mutant: only the absence of the key is checked, not the placeholder
ApiKeyMissing(key) == ~Truthy(key)

\* !process.env.ANTHROPIC_API_KEY || process.env.ANTHROPIC_API_KEY === 'dummy-key'
ApiKeyInvalid(key) == ~Truthy(key) \/ key = DummyKey

\* mutant: a system message is put before the user's
GenerateMessagesWithSystem(searchQuery) ==
    <<[role |-> "system", content |-> Str(<<"answer briefly">>)],
      [role |-> "user", content |-> searchQuery]>>

\* webSearchAgent.generate([{role: 'user', content: searchQuery}])
GenerateMessages(searchQuery) == <<[role |-> "user", content |-> searchQuery]>>

\* mutant: the text is returned as it is
JSONstringifyRaw(text) == Str(text)

\* JSON.stringify of a string: the text between double quotes
JSONstringify(text) == Str(<<"\"">> \o text \o <<"\"">>)

\* mutant: the explanation without ${error.message}
ErrorAnswerNoDetail(message) == Str(ErrorPrefix)

\* the template string of the catch block, ending in ${error.message}
ErrorAnswer(message) == Str(ErrorPrefix \o message)

\* the texts the agent may generate for a message list (an external collaborator)
Replies(messages) ==
    {<<>>} \cup {<<"re:">> \o messages[i].content.s : i \in 1..Len(messages)}

----------------------------------------------------------------------------
(* Promises and results *)

PendingPromise ==
    [state |-> "pending", error |-> <<>>, agent |-> 0, workflows |-> {}]

\* the promise of initializeMastra() once it returned new Mastra({workflows})
FulfilledPromise(agent, workflows) ==
    [state |-> "fulfilled", error |-> <<>>, agent |-> agent, workflows |-> workflows]

RejectedPromise(message) ==
    [state |-> "rejected", error |-> message, agent |-> 0, workflows |-> {}]

NoRequest == [container |-> FALSE, query |-> Undefined]

\* the promise of generate: not settled, resolved with {text}, rejected with an Error
NoOutcome == [tag |-> "none", s |-> <<>>]

Resolved(text) == [tag |-> "text", s |-> text]

Rejected(message) == [tag |-> "error", s |-> message]

NoReturn == [tag |-> "none", success |-> FALSE, result |-> <<>>, error |-> <<>>]

\* { success: true, result }
Success(result) ==
    [tag |-> "RunResult", success |-> TRUE, result |-> result, error |-> <<>>]

\* mutant: the catch block returns its fixed text whatever the error is
FailureGeneric(message) ==
    [tag |-> "RunResult", success |-> FALSE, result |-> <<>>,
     error |-> <<"Failed to run web search agent">>]

\* { success: false, error }: the error is an Error, so the catch block returns
\* error.message
Failure(message) ==
    [tag |-> "RunResult", success |-> FALSE, result |-> <<>>, error |-> message]

\* what start() resolves to, for a caller that ran the workflow itself
WorkflowResult(result) ==
    [tag |-> "WorkflowResult", success |-> TRUE, result |-> result, error |-> <<>>]

\* the call rejected: an exception reached the caller
Thrown(message) ==
    [tag |-> "exception", success |-> FALSE, result |-> <<>>, error |-> message]

\* the output of the last step recorded in a result
FinalOutput(result) ==
    IF Len(result) = 0 THEN NoOutput ELSE result[Len(result)].output

----------------------------------------------------------------------------
(* Initial state: the module has been loaded, nothing has been called *)

Init ==
    /\ env \in EnvValues
    /\ promises = <<>>
    /\ mastraPromise = 0
    /\ webSearchAgentPromise = "null"
    /\ agents = [f \in {"initializeMastra", "getWebSearchAgent"} |-> 0]
    /\ pc = [p \in Calls |-> "idle"]
    /\ kind = [p \in Calls |-> "none"]
    /\ req = [p \in Calls |-> NoRequest]
    /\ awaiting = [p \in Calls |-> 0]
    /\ wf = [p \in Calls |-> NoWorkflow]
    /\ ctx = [p \in Calls |-> EmptyContext]
    /\ stepIdx = [p \in Calls |-> 0]
    /\ sent = [p \in Calls |-> <<>>]
    /\ outcome = [p \in Calls |-> NoOutcome]
    /\ ret = [p \in Calls |-> NoReturn]

----------------------------------------------------------------------------
(* getMastra, getWebSearchAgent, initializeMastra, createWebSearchAgent *)

\* mutant: initializeMastra() is called whether or not mastraPromise is set
GetMastraNoCache(p) ==
    /\ promises' = Append(promises, PendingPromise)
    /\ mastraPromise' = Len(promises) + 1
    /\ awaiting' = [awaiting EXCEPT ![p] = mastraPromise']

\* mutant: a rejected mastraPromise is treated like null and initialization retried
GetMastraRetry(p) ==
    /\ IF mastraPromise = 0 \/ promises[mastraPromise].state = "rejected"
       THEN /\ promises' = Append(promises, PendingPromise)
            /\ mastraPromise' = Len(promises) + 1
       ELSE UNCHANGED <<promises, mastraPromise>>
    /\ awaiting' = [awaiting EXCEPT ![p] = mastraPromise']

\* getMastra() called by p: the check and the assignment run without an await
\* between them; initializeMastra() runs up to its first await and returns
\* its pending promise
GetMastra(p) ==
    /\ IF mastraPromise = 0
       THEN /\ promises' = Append(promises, PendingPromise)
            /\ mastraPromise' = Len(promises) + 1
       ELSE UNCHANGED <<promises, mastraPromise>>
    /\ awaiting' = [awaiting EXCEPT ![p] = mastraPromise']

\* mcp.getTools() resolved inside initializeMastra number i: the agent is
\* constructed, the workflow is built, committed and registered
InitializeMastraResolve(i) ==
    /\ promises[i].state = "pending"
    /\ agents' = [agents EXCEPT !["initializeMastra"] = @ + 1]
    /\ promises' = [promises EXCEPT ![i] = FulfilledPromise(i, RegisteredWorkflows)]
    /\ UNCHANGED <<env, mastraPromise, webSearchAgentPromise, pc, kind, req,
                   awaiting, wf, ctx, stepIdx, sent, outcome, ret>>

\* mcp.getTools() rejected inside initializeMastra number i
InitializeMastraReject(i, message) ==
    /\ promises[i].state = "pending"
    /\ promises' = [promises EXCEPT ![i] = RejectedPromise(message)]
    /\ UNCHANGED <<env, mastraPromise, webSearchAgentPromise, agents, pc, kind,
                   req, awaiting, wf, ctx, stepIdx, sent, outcome, ret>>

\* getWebSearchAgent() called by some importer of the module
GetWebSearchAgent ==
    /\ IF webSearchAgentPromise = "null"
       THEN webSearchAgentPromise' = "pending"
       ELSE UNCHANGED webSearchAgentPromise
    /\ UNCHANGED <<env, promises, mastraPromise, agents, pc, kind, req,
                   awaiting, wf, ctx, stepIdx, sent, outcome, ret>>

\* mcp.getTools() resolved inside the createWebSearchAgent() of getWebSearchAgent
WebSearchAgentResolve ==
    /\ webSearchAgentPromise = "pending"
    /\ webSearchAgentPromise' = "fulfilled"
    /\ agents' = [agents EXCEPT !["getWebSearchAgent"] = @ + 1]
    /\ UNCHANGED <<env, promises, mastraPromise, pc, kind, req, awaiting, wf,
                   ctx, stepIdx, sent, outcome, ret>>

WebSearchAgentReject ==
    /\ webSearchAgentPromise = "pending"
    /\ webSearchAgentPromise' = "rejected"
    /\ UNCHANGED <<env, promises, mastraPromise, agents, pc, kind, req,
                   awaiting, wf, ctx, stepIdx, sent, outcome, ret>>

----------------------------------------------------------------------------
(* runWebSearchAgent *)

\* the name runWebSearchAgent passes to mastra.getWorkflow
LookupName == "web-search-workflow"

\* mastra.getWorkflow(name): the workflows registered under the name
GetWorkflow(workflows, name) == {e \in workflows : e.key = name}

\* what the caller of start() gets once start() resolved with result: the entry
\* point returns { success: true, result }
RunReturn(p, result) ==
    IF kind[p] = "runWebSearchAgent" THEN Success(result) ELSE WorkflowResult(result)

\* the engine moves to step number idx of the run with the context as it is now;
\* after the last step start() resolves and its caller continues
Advance(p, workflow, context, idx) ==
    /\ ctx' = [ctx EXCEPT ![p] = context]
    /\ stepIdx' = [stepIdx EXCEPT ![p] = idx]
    /\ IF idx > Len(workflow.steps)
       THEN /\ pc' = [pc EXCEPT ![p] = "done"]
            /\ ret' = [ret EXCEPT ![p] = RunReturn(p, context.stepOutputs)]
       ELSE /\ pc' = [pc EXCEPT ![p] = "running"]
            /\ UNCHANGED ret

\* workflow.createRun() and the synchronous part of start(args)
StartRun(p, workflow, trigger, input) ==
    /\ wf' = [wf EXCEPT ![p] = workflow]
    /\ Advance(p, workflow, SeedContext(trigger, input), 1)

\* mutant: getMastra() is called before the query is validated
RunWebSearchAgentInitFirst(p, r) ==
    /\ pc[p] = "idle"
    /\ kind' = [kind EXCEPT ![p] = "runWebSearchAgent"]
    /\ req' = [req EXCEPT ![p] = r]
    /\ IF ~r.container
       THEN /\ pc' = [pc EXCEPT ![p] = "thrown"]
            /\ ret' = [ret EXCEPT ![p] = Thrown(TypeErrorMessage)]
            /\ UNCHANGED <<promises, mastraPromise, awaiting>>
       ELSE /\ GetMastra(p)
            /\ IF ~Truthy(r.query)
               THEN /\ pc' = [pc EXCEPT ![p] = "done"]
                    /\ ret' = [ret EXCEPT ![p] = Failure(NoPromptProvided)]
               ELSE /\ pc' = [pc EXCEPT ![p] = "awaitMastra"]
                    /\ UNCHANGED ret
    /\ UNCHANGED <<env, webSearchAgentPromise, agents, wf, ctx, stepIdx, sent,
                   outcome>>

\* runWebSearchAgent(r) up to its first await
RunWebSearchAgent(p, r) ==
    /\ pc[p] = "idle"
    /\ kind' = [kind EXCEPT ![p] = "runWebSearchAgent"]
    /\ req' = [req EXCEPT ![p] = r]
    /\ IF ~r.container
       THEN \* const { query } = req.query  with req.query undefined, outside the try
            /\ pc' = [pc EXCEPT ![p] = "thrown"]
            /\ ret' = [ret EXCEPT ![p] = Thrown(TypeErrorMessage)]
            /\ UNCHANGED <<promises, mastraPromise, awaiting>>
       ELSE IF ~Truthy(r.query)
       THEN /\ pc' = [pc EXCEPT ![p] = "done"]
            /\ ret' = [ret EXCEPT ![p] = Failure(NoPromptProvided)]
            /\ UNCHANGED <<promises, mastraPromise, awaiting>>
       ELSE /\ GetMastra(p)
            /\ pc' = [pc EXCEPT ![p] = "awaitMastra"]
            /\ UNCHANGED ret
    /\ UNCHANGED <<env, webSearchAgentPromise, agents, wf, ctx, stepIdx, sent,
                   outcome>>

\* runWebSearchAgent after await getMastra(): the lookup, createRun and start,
\* or the catch block
RunWebSearchAgentResume(p) ==
    /\ pc[p] = "awaitMastra"
    /\ kind[p] = "runWebSearchAgent"
    /\ promises[awaiting[p]].state # "pending"
    /\ LET promise == promises[awaiting[p]]
           found == GetWorkflow(promise.workflows, LookupName)
           query == req[p].query
       IN  IF promise.state = "rejected"
           THEN /\ pc' = [pc EXCEPT ![p] = "done"]
                /\ ret' = [ret EXCEPT ![p] = Failure(promise.error)]
                /\ UNCHANGED <<wf, ctx, stepIdx>>
           ELSE IF found = {}
           THEN /\ pc' = [pc EXCEPT ![p] = "done"]
                /\ ret' = [ret EXCEPT ![p] = Failure(<<"workflow not found">>)]
                /\ UNCHANGED <<wf, ctx, stepIdx>>
           ELSE \E e \in found : StartRun(p, e.workflow, query, query)
    /\ UNCHANGED <<env, promises, mastraPromise, webSearchAgentPromise, agents,
                   kind, req, awaiting, sent, outcome>>

----------------------------------------------------------------------------
(* A caller that runs the workflow through getMastra() itself *)

DirectGetMastra(p) ==
    /\ pc[p] = "idle"
    /\ kind' = [kind EXCEPT ![p] = "getMastra"]
    /\ GetMastra(p)
    /\ pc' = [pc EXCEPT ![p] = "awaitMastra"]
    /\ UNCHANGED <<env, webSearchAgentPromise, agents, req, wf, ctx, stepIdx,
                   sent, outcome, ret>>

\* after await getMastra(): start({triggerData: {query: trigger},
\* steps: {<id>: {input: {query: input}}}})
DirectStart(p, trigger, input) ==
    /\ pc[p] = "awaitMastra"
    /\ kind[p] = "getMastra"
    /\ promises[awaiting[p]].state # "pending"
    /\ LET promise == promises[awaiting[p]]
           found == GetWorkflow(promise.workflows, LookupName)
       IN  IF promise.state = "rejected" \/ found = {}
           THEN /\ pc' = [pc EXCEPT ![p] = "thrown"]
                /\ ret' = [ret EXCEPT ![p] = Thrown(promise.error)]
                /\ UNCHANGED <<wf, ctx, stepIdx>>
           ELSE \E e \in found : StartRun(p, e.workflow, trigger, input)
    /\ UNCHANGED <<env, promises, mastraPromise, webSearchAgentPromise, agents,
                   kind, req, awaiting, sent, outcome>>

----------------------------------------------------------------------------
(* The run: the steps in the workflow's order *)

NextStepIs(p, id) ==
    /\ pc[p] = "running"
    /\ stepIdx[p] <= Len(wf[p].steps)
    /\ wf[p].steps[stepIdx[p]] = id

\* the engine records the step's output and moves to the next step
CompleteStep(p, id, output) ==
    Advance(p, wf[p], RecordOutput(ContextAfterExecute(ctx[p], id), id, output),
            stepIdx[p] + 1)

ExecuteSearchStep(p) ==
    /\ NextStepIs(p, SearchStepId)
    /\ CompleteStep(p, SearchStepId, SearchStepExecute(ctx[p]))
    /\ UNCHANGED <<env, promises, mastraPromise, webSearchAgentPromise, agents,
                   kind, req, awaiting, wf, sent, outcome>>

\* process-results-step up to its return or to await webSearchAgent.generate
ExecuteProcessResultsStep(p) ==
    /\ NextStepIs(p, ProcessResultsStepId)
    /\ LET searchQuery == ProcessResultsQuery(ctx[p])
       IN  IF ~Truthy(searchQuery)
           THEN /\ CompleteStep(p, ProcessResultsStepId, AnswerOutput(NoQueryAnswer))
                /\ UNCHANGED sent
           ELSE IF ApiKeyInvalid(env)
           THEN /\ CompleteStep(p, ProcessResultsStepId, AnswerOutput(CannedAnswer))
                /\ UNCHANGED sent
           ELSE /\ sent' = [sent EXCEPT ![p] = Append(@, GenerateMessages(searchQuery))]
                /\ pc' = [pc EXCEPT ![p] = "awaitGenerate"]
                /\ UNCHANGED <<ctx, stepIdx, ret>>
    /\ UNCHANGED <<env, promises, mastraPromise, webSearchAgentPromise, agents,
                   kind, req, awaiting, wf, outcome>>

\* generate resolved with {text}: return { answer: JSON.stringify(result.text) }
GenerateResolve(p) ==
    /\ pc[p] = "awaitGenerate"
    /\ \E text \in Replies(sent[p][Len(sent[p])]) :
          /\ outcome' = [outcome EXCEPT ![p] = Resolved(text)]
          /\ CompleteStep(p, ProcessResultsStepId, AnswerOutput(JSONstringify(text)))
    /\ UNCHANGED <<env, promises, mastraPromise, webSearchAgentPromise, agents,
                   kind, req, awaiting, wf, sent>>

\* generate rejected with an Error: the catch block of process-results-step
GenerateReject(p, message) ==
    /\ pc[p] = "awaitGenerate"
    /\ outcome' = [outcome EXCEPT ![p] = Rejected(message)]
    /\ CompleteStep(p, ProcessResultsStepId, AnswerOutput(ErrorAnswer(message)))
    /\ UNCHANGED <<env, promises, mastraPromise, webSearchAgentPromise, agents,
                   kind, req, awaiting, wf, sent>>

----------------------------------------------------------------------------

Next ==
    \/ \E p \in Calls : \E r \in Requests(p) : RunWebSearchAgent(p, r)
    \/ \E p \in Calls : RunWebSearchAgentResume(p)
    \/ \E p \in Calls : DirectGetMastra(p)
    \/ \E p \in Calls : \E t \in QueryValues(p), o \in InputValues(p) : DirectStart(p, t, o)
    \/ \E i \in 1..Len(promises) : InitializeMastraResolve(i)
    \/ \E i \in 1..Len(promises), m \in InitErrorMessages : InitializeMastraReject(i, m)
    \/ GetWebSearchAgent
    \/ WebSearchAgentResolve
    \/ WebSearchAgentReject
    \/ \E p \in Calls : ExecuteSearchStep(p)
    \/ \E p \in Calls : ExecuteProcessResultsStep(p)
    \/ \E p \in Calls : GenerateResolve(p)
    \/ \E p \in Calls, m \in ErrorMessages : GenerateReject(p, m)

Spec == Init /\ [][Next]_vars

----------------------------------------------------------------------------
(* process-results-step as a function of its context argument: every caller's *)
(* run stands before process-results-step with a context drawn from the       *)
(* shapes the step reads (lines 126-127), whatever step produced them         *)

\* steps['search-step'].output.query of the drawn contexts
PreviousQueryValues == {Undefined, Str(<<>>), Str(<<"previous">>)}

ContextBeforeProcessResults(trigger, previous) ==
    RecordOutput(SeedContext(trigger, Undefined), SearchStepId, QueryOutput(previous))

InitProcessStep ==
    /\ env \in EnvValues
    /\ promises = <<FulfilledPromise(1, RegisteredWorkflows)>>
    /\ mastraPromise = 1
    /\ webSearchAgentPromise = "null"
    /\ agents = [f \in {"initializeMastra", "getWebSearchAgent"} |->
                    IF f = "initializeMastra" THEN 1 ELSE 0]
    /\ pc = [p \in Calls |-> "running"]
    /\ kind = [p \in Calls |-> "getMastra"]
    /\ req = [p \in Calls |-> NoRequest]
    /\ awaiting = [p \in Calls |-> 1]
    /\ wf = [p \in Calls |-> WebSearchWorkflow]
    /\ \E f \in [Calls -> PreviousQueryValues] :
          ctx = [p \in Calls |-> ContextBeforeProcessResults(QueryOf(p), f[p])]
    /\ stepIdx = [p \in Calls |-> 2]
    /\ sent = [p \in Calls |-> <<>>]
    /\ outcome = [p \in Calls |-> NoOutcome]
    /\ ret = [p \in Calls |-> NoReturn]

NextProcessStep ==
    \/ \E p \in Calls : ExecuteProcessResultsStep(p)
    \/ \E p \in Calls : GenerateResolve(p)
    \/ \E p \in Calls, m \in ErrorMessages : GenerateReject(p, m)

SpecProcessStep == InitProcessStep /\ [][NextProcessStep]_vars

----------------------------------------------------------------------------
(* Vocabulary of the properties *)

IsEntryCall(p) == kind[p] = "runWebSearchAgent"

Returned(p) == pc[p] \in {"done", "thrown"}

\* the run of p has been started: its context is seeded
RunStarted(p) == stepIdx[p] >= 1

HasOutput(p, id) == \E i \in 1..Len(ctx[p].stepOutputs) : ctx[p].stepOutputs[i].id = id

\* the answer process-results-step produced in the run of p
AnswerOf(p) == OutputOf(ctx[p], ProcessResultsStepId).answer

\* the messages the run of p sent to the agent
ContentsSent(p) ==
    {sent[p][i][j].content : i \in 1..Len(sent[p]), j \in 1..1}

IsDefined(v) == v.t # "undefined"

\* initialization succeeded for p: the promise getMastra() gave it is fulfilled
InitSucceeded(p) == awaiting[p] # 0 /\ promises[awaiting[p]].state = "fulfilled"

----------------------------------------------------------------------------
(* C1 *)

\* C1 as stated: every call of runWebSearchAgent with a non-empty query that has
\* returned, returned success = true with a non-empty answer string in the final
\* step output, whether or not initialization succeeded.
C1_AlwaysAnswers ==
    \A p \in Calls :
        (IsEntryCall(p) /\ Truthy(req[p].query) /\ Returned(p)) =>
            /\ ret[p].tag = "RunResult"
            /\ ret[p].success
            /\ Truthy(FinalOutput(ret[p].result).answer)

\* C1 amended: every call of runWebSearchAgent with a non-empty query whose
\* initialization succeeded and that has returned, returned success = true with a
\* non-empty answer string in the final step output, for every credential value and
\* whether generate resolved or rejected.
C1_AnswersAfterInit ==
    \A p \in Calls :
        (IsEntryCall(p) /\ Truthy(req[p].query) /\ Returned(p) /\ InitSucceeded(p)) =>
            /\ ret[p].tag = "RunResult"
            /\ ret[p].success
            /\ Truthy(FinalOutput(ret[p].result).answer)

\* a call with a non-empty query returned the stringification of an empty
\* generated text
C1_Witness ==
    \E p \in Calls :
        /\ IsEntryCall(p) /\ Truthy(req[p].query) /\ pc[p] = "done"
        /\ InitSucceeded(p)
        /\ outcome[p] = Resolved(<<>>)
        /\ ret[p].success

----------------------------------------------------------------------------
(* C2 *)

\* C2: in a finished run whose trigger data has an empty or absent query, the
\* output of search-step is the placeholder query and the final answer is the
\* fixed missing-input placeholder; no exception reached the caller.
C2_MissingQueryPlaceholder ==
    \A p \in Calls :
        (RunStarted(p) /\ ~Truthy(ctx[p].triggerData.query) /\ Returned(p)) =>
            /\ pc[p] = "done"
            /\ OutputOf(ctx[p], SearchStepId).query = NoQuerySearch
            /\ FinalOutput(ret[p].result).answer = NoQueryAnswer

----------------------------------------------------------------------------
(* C3 *)

\* C3: in a run where no context layer defines a non-empty query, generate is never
\* called, the answer of process-results-step is the fixed placeholder, and the
\* placeholder query of search-step is never the content of a message to the agent.
C3_SentinelNeverReachesAgent ==
    \A p \in Calls :
        /\ (/\ RunStarted(p)
            /\ ~Truthy(ctx[p].triggerData.query)
            /\ \A id \in StepIds : ~Truthy(ctx[p].stepInput[id].query)) =>
               /\ sent[p] = <<>>
               /\ HasOutput(p, ProcessResultsStepId) => AnswerOf(p) = NoQueryAnswer
        /\ NoQuerySearch \notin ContentsSent(p)

----------------------------------------------------------------------------
(* C4 *)

\* the query §4.1 resolves for process-results-step: the per-step input if it
\* defines query, else the output of search-step if it does, else the trigger data
PrecedenceQuery(context) ==
    IF IsDefined(context.stepInput[ProcessResultsStepId].query)
    THEN context.stepInput[ProcessResultsStepId].query
    ELSE IF IsDefined(OutputOf(context, SearchStepId).query)
    THEN OutputOf(context, SearchStepId).query
    ELSE context.triggerData.query

\* C4: once search-step has completed, the query process-results-step uses is the
\* one the precedence per-step input > prior step output > trigger data gives.
C4_Precedence ==
    \A p \in Calls :
        HasOutput(p, SearchStepId) =>
            ProcessResultsQuery(ctx[p]) = PrecedenceQuery(ctx[p])

----------------------------------------------------------------------------
(* C5 *)

\* C5: while the model credential is absent or 'dummy-key', no run calls generate;
\* a run whose process-results-step completed with a resolved query has the canned
\* answer, and a call of runWebSearchAgent whose run got there returned
\* success = true with that canned answer.
C5_CannedWithoutAgent ==
    (env = Undefined \/ env = DummyKey) =>
        \A p \in Calls :
            /\ sent[p] = <<>>
            /\ pc[p] # "awaitGenerate"
            /\ (HasOutput(p, ProcessResultsStepId) /\ Truthy(ProcessResultsQuery(ctx[p]))) =>
                  /\ AnswerOf(p) = CannedAnswer
                  /\ IsEntryCall(p) =>
                        /\ pc[p] = "done"
                        /\ ret[p].tag = "RunResult"
                        /\ ret[p].success
                        /\ FinalOutput(ret[p].result).answer = CannedAnswer

\* a call of runWebSearchAgent returned the canned answer under the placeholder key
C5_Witness ==
    \E p \in Calls :
        /\ env = DummyKey
        /\ IsEntryCall(p) /\ pc[p] = "done" /\ ret[p].success
        /\ FinalOutput(ret[p].result).answer = CannedAnswer

----------------------------------------------------------------------------
(* C6 *)

\* C6: when the generate call of a run rejected with an error, the answer of
\* process-results-step is a string that contains the error's message, no exception
\* reached the caller, and a call of runWebSearchAgent returned success = true with
\* that answer.
C6_AgentErrorBecomesAnswer ==
    \A p \in Calls :
        outcome[p].tag = "error" =>
            /\ HasOutput(p, ProcessResultsStepId)
            /\ Contains(AnswerOf(p), outcome[p].s)
            /\ pc[p] = "done"
            /\ ret[p].tag # "exception"
            /\ IsEntryCall(p) =>
                  /\ ret[p].tag = "RunResult"
                  /\ ret[p].success
                  /\ FinalOutput(ret[p].result).answer = AnswerOf(p)

\* a call of runWebSearchAgent whose generate call rejected with NetworkTimeout
\* has returned
C6_Witness ==
    \E p \in Calls :
        /\ IsEntryCall(p) /\ pc[p] = "done"
        /\ outcome[p] = Rejected(<<"NetworkTimeout">>)

----------------------------------------------------------------------------
(* C7 *)

\* C7: a call of runWebSearchAgent whose request has an absent or empty query, once
\* returned, has started a run of the workflow and returned success = true with an
\* answer.
C7_MissingQueryStillRuns ==
    \A p \in Calls :
        (IsEntryCall(p) /\ req[p].container /\ ~Truthy(req[p].query) /\ Returned(p)) =>
            /\ RunStarted(p)
            /\ ret[p].tag = "RunResult"
            /\ ret[p].success
            /\ IsDefined(FinalOutput(ret[p].result).answer)

----------------------------------------------------------------------------
(* C8 *)

\* C8: a call of runWebSearchAgent that has ended has returned {success: true,
\* result} or {success: false, error}; no exception reached its caller.
C8_NeverThrows ==
    \A p \in Calls :
        (IsEntryCall(p) /\ pc[p] # "idle") =>
            /\ pc[p] # "thrown"
            /\ ret[p].tag # "exception"
            /\ pc[p] = "done" => ret[p].tag = "RunResult"

----------------------------------------------------------------------------
(* C9 *)

\* C9: initializeMastra is started at most once and constructs at most one agent;
\* every caller that asked for the instance holds the one promise mastraPromise
\* holds, hence awaits the same initialization and receives the same instance.
C9_SingleFlight ==
    /\ Len(promises) <= 1
    /\ agents["initializeMastra"] <= 1
    /\ \A p \in Calls : awaiting[p] # 0 => awaiting[p] = mastraPromise
    /\ \A p, q \in Calls :
          (awaiting[p] # 0 /\ awaiting[q] # 0) => awaiting[p] = awaiting[q]

\* two callers asked for the instance while its initialization was in progress
C9_Witness ==
    \E p, q \in Calls :
        /\ p # q
        /\ pc[p] = "awaitMastra" /\ pc[q] = "awaitMastra"
        /\ promises[awaiting[p]].state = "pending"
        /\ promises[awaiting[q]].state = "pending"

----------------------------------------------------------------------------
(* C10 *)

\* the answers a run with trigger query t can produce from its own data alone
OwnAnswers(t) ==
    LET own == IF Truthy(t) THEN t ELSE NoQuerySearch
    IN  {NoQueryAnswer, CannedAnswer}
            \cup {Str(ErrorPrefix \o m) : m \in ErrorMessages}
            \cup {Str(<<"\"">> \o text \o <<"\"">>) : text \in {<<>>, <<"re:">> \o own.s}}

\* C10: in every run, the trigger data is the starting caller's own, each message
\* sent to the agent carries that run's query (or the placeholder made from it) and
\* the answer derives from it; no query of another caller is sent or answered.
C10_NoCrossRunLeakage ==
    \A p \in Calls :
        RunStarted(p) =>
            LET t == ctx[p].triggerData.query
            IN  /\ t \in QueryValues(p)
                /\ ContentsSent(p) \subseteq {IF Truthy(t) THEN t ELSE NoQuerySearch}
                /\ HasOutput(p, SearchStepId) =>
                      OutputOf(ctx[p], SearchStepId).query
                          = (IF Truthy(t) THEN t ELSE NoQuerySearch)
                /\ HasOutput(p, ProcessResultsStepId) => AnswerOf(p) \in OwnAnswers(t)
                /\ \A q \in Calls \ {p} :
                      /\ QueryOf(q) \notin ContentsSent(p)
                      /\ ~Contains(AnswerOf(p), QueryOf(q).s)

\* two runs with different queries are waiting for the agent at the same time
C10_Witness ==
    \E p, q \in Calls :
        /\ p # q
        /\ pc[p] = "awaitGenerate" /\ pc[q] = "awaitGenerate"
        /\ ContentsSent(p) = {QueryOf(p)}
        /\ ContentsSent(q) = {QueryOf(q)}

----------------------------------------------------------------------------
(* C11 *)

----------------------------------------------------------------------------
(* C12 *)

\* the ids of the outputs recorded in the run of p, in the order recorded
OutputIds(p) == [i \in 1..Len(ctx[p].stepOutputs) |-> ctx[p].stepOutputs[i].id]

\* C12: in every run the outputs recorded are those of search-step then
\* process-results-step, each at most once and none skipped; search-step executes
\* with no output recorded, process-results-step executes with exactly the output
\* of search-step recorded, and a finished run has both outputs.
C12_StepsInOrder ==
    \A p \in Calls :
        RunStarted(p) =>
            /\ OutputIds(p) \in {<<>>, <<SearchStepId>>,
                                 <<SearchStepId, ProcessResultsStepId>>}
            /\ stepIdx[p] = Len(ctx[p].stepOutputs) + 1
            /\ NextStepIs(p, SearchStepId) => OutputIds(p) = <<>>
            /\ (NextStepIs(p, ProcessResultsStepId) \/ pc[p] = "awaitGenerate") =>
                  OutputIds(p) = <<SearchStepId>>
            /\ pc[p] = "running" => stepIdx[p] <= 2
            /\ pc[p] = "done" =>
                  OutputIds(p) = <<SearchStepId, ProcessResultsStepId>>

\* a run has finished with both outputs recorded
C12_Witness ==
    \E p \in Calls :
        /\ RunStarted(p) /\ pc[p] = "done"
        /\ OutputIds(p) = <<SearchStepId, ProcessResultsStepId>>
        /\ IsDefined(OutputOf(ctx[p], SearchStepId).query)

----------------------------------------------------------------------------
(* C13 *)

\* process-results-step has resolved its query in the run of p
ProcessResultsActed(p) ==
    HasOutput(p, ProcessResultsStepId) \/ pc[p] = "awaitGenerate"

----------------------------------------------------------------------------
(* C14 *)

\* C14: every step of a started run leaves the run's trigger data, per-step inputs
\* and recorded outputs as they were; the context changes only by one output being
\* appended, under the id of the step that was next.
C14_ResolutionIsPureRead ==
    [][\A p \in Calls :
          RunStarted(p) =>
              /\ ctx'[p].triggerData = ctx[p].triggerData
              /\ ctx'[p].stepInput = ctx[p].stepInput
              /\ \/ ctx'[p].stepOutputs = ctx[p].stepOutputs
                 \/ /\ Len(ctx'[p].stepOutputs) = Len(ctx[p].stepOutputs) + 1
                    /\ SubSeq(ctx'[p].stepOutputs, 1, Len(ctx[p].stepOutputs))
                          = ctx[p].stepOutputs
                    /\ ctx'[p].stepOutputs[Len(ctx'[p].stepOutputs)].id
                          = wf[p].steps[stepIdx[p]]]_vars

\* a run whose trigger data has no query and that was given per-step inputs has
\* executed both steps, and its trigger data and inputs are still those
C14_Witness ==
    \E p \in Calls :
        /\ pc[p] = "done" /\ Len(ctx[p].stepOutputs) = 2
        /\ ctx[p].triggerData.query = Undefined
        /\ \A id \in StepIds : ctx[p].stepInput[id].query = InputOf(p)

----------------------------------------------------------------------------
(* C15 *)

InitFailed == mastraPromise # 0 /\ promises[mastraPromise].state = "rejected"

\* C15: once initializeMastra has rejected, mastraPromise keeps holding that rejected
\* promise and no initialization is started again; every caller that asks for the
\* instance from then on is given that promise, and every call of runWebSearchAgent
\* with a non-empty query that was given it returns success = false.
C15_FailedInitIsCached ==
    /\ [][InitFailed =>
             /\ mastraPromise' = mastraPromise
             /\ promises' = promises
             /\ \A p \in Calls :
                   awaiting'[p] # awaiting[p] => awaiting'[p] = mastraPromise]_vars
    /\ [](\A p \in Calls :
             (/\ IsEntryCall(p) /\ Truthy(req[p].query) /\ Returned(p)
              /\ InitFailed /\ awaiting[p] = mastraPromise) =>
                 /\ ret[p].tag = "RunResult"
                 /\ ~ret[p].success
                 /\ ~RunStarted(p))

\* two calls of runWebSearchAgent with non-empty queries have returned the failure
\* of the one initialization that was ever started
C15_Witness ==
    \E p, q \in Calls :
        /\ p # q /\ InitFailed /\ Len(promises) = 1
        /\ \A c \in {p, q} :
              /\ IsEntryCall(c) /\ Truthy(req[c].query) /\ pc[c] = "done"
              /\ ret[c] = Failure(promises[mastraPromise].error)

----------------------------------------------------------------------------
(* C16 *)

\* C16: the query output by search-step is a non-empty string, the trigger data's
\* query when that is truthy and the placeholder otherwise; once search-step has
\* completed, the query process-results-step resolves is that output, so a message
\* sent to the agent carries it.
C16_SearchOutputNonEmpty ==
    \A p \in Calls :
        HasOutput(p, SearchStepId) =>
            LET t == ctx[p].triggerData.query
                out == OutputOf(ctx[p], SearchStepId).query
            IN  /\ Truthy(out)
                /\ out = (IF Truthy(t) THEN t ELSE NoQuerySearch)
                /\ ProcessResultsQuery(ctx[p]) = out
                /\ ContentsSent(p) \subseteq {out}

\* a run without a query in its trigger data has sent the placeholder of
\* search-step to the agent
C16_Witness ==
    \E p \in Calls :
        /\ ~Truthy(ctx[p].triggerData.query)
        /\ OutputOf(ctx[p], SearchStepId).query = NoQuerySearch
        /\ ContentsSent(p) = {NoQuerySearch}

----------------------------------------------------------------------------
(* C17 *)

\* C17: a run calls generate at most once, only once search-step has completed and
\* process-results-step is executing or has completed, and with one message, of
\* role 'user', whose content is the query process-results-step resolved.
C17_OneUserMessage ==
    \A p \in Calls :
        /\ Len(sent[p]) <= 1
        /\ pc[p] = "awaitGenerate" => Len(sent[p]) = 1
        /\ Len(sent[p]) = 1 =>
              /\ HasOutput(p, SearchStepId)
              /\ stepIdx[p] >= 2
              /\ ProcessResultsActed(p)
              /\ Len(sent[p][1]) = 1
              /\ sent[p][1][1].role = "user"
              /\ sent[p][1][1].content = ProcessResultsQuery(ctx[p])

\* a run has called generate and the call has settled
C17_Witness ==
    \E p \in Calls :
        /\ Len(sent[p]) = 1 /\ pc[p] = "done"
        /\ outcome[p].tag = "text"
        /\ sent[p][1][1].content = QueryOf(p)

----------------------------------------------------------------------------
(* C18 *)

\* C18: a call of runWebSearchAgent whose request has the query container and an
\* absent or empty query returns {success: false, error: 'No prompt provided'} at
\* once and changes nothing else: mastraPromise, the promises of initializeMastra,
\* webSearchAgentPromise and the agents are as before and no run is started.
C18_EmptyQueryTouchesNothing ==
    [][\A p \in Calls :
          (/\ pc[p] = "idle"
           /\ kind'[p] = "runWebSearchAgent"
           /\ req'[p].container
           /\ ~Truthy(req'[p].query)) =>
              /\ pc'[p] = "done"
              /\ ret'[p] = Failure(NoPromptProvided)
              /\ UNCHANGED <<env, promises, mastraPromise, webSearchAgentPromise,
                             agents, awaiting, wf, ctx, stepIdx, sent, outcome>>]_vars

\* a call with an empty query has returned and no initialization has been started
C18_Witness ==
    \E p \in Calls :
        /\ IsEntryCall(p) /\ req[p].container /\ req[p].query = Str(<<>>)
        /\ pc[p] = "done"
        /\ ret[p] = Failure(NoPromptProvided)
        /\ mastraPromise = 0 /\ promises = <<>>
        /\ ~RunStarted(p)

----------------------------------------------------------------------------
(* C19 *)

\* C19: the workflow of every started run has both steps, search-step then
\* process-results-step, is committed, and is the one registered under the name
\* runWebSearchAgent looks up in the instance of a fulfilled initialization.
C19_RunsOnlyOnCommittedWorkflow ==
    \A p \in Calls :
        RunStarted(p) =>
            /\ wf[p].steps = <<SearchStepId, ProcessResultsStepId>>
            /\ wf[p].committed
            /\ awaiting[p] # 0
            /\ promises[awaiting[p]].state = "fulfilled"
            /\ [key |-> LookupName, workflow |-> wf[p]]
                   \in promises[awaiting[p]].workflows

\* two callers that asked for the instance have both started their runs
C19_Witness ==
    \E p, q \in Calls :
        /\ p # q
        /\ IsEntryCall(p)
        /\ RunStarted(p) /\ RunStarted(q)
        /\ wf[p] = wf[q]

====
